---- MODULE Spec2Model ----
(***************************************************************************)
(* Model of app/similarity/handwriting_similarity.py: the page-extraction  *)
(* pool, the result cache, the similarity scorer, the anomaly detector and *)
(* the page-variation analyzer.                                            *)
(*                                                                         *)
(* Numbers.  The program computes with IEEE doubles; the model computes    *)
(* with exact rationals [n |-> numerator, d |-> denominator > 0] in lowest *)
(* terms.  A standard deviation is never formed: a comparison against      *)
(* threshold * std is made on the squares, and a deviation (a quotient by  *)
(* std) is carried as its square.                                          *)
(***************************************************************************)
EXTENDS Integers, Sequences, FiniteSets, TLC

\* ------------------------------------------------------------------------
\* Bounds of the model
\* ------------------------------------------------------------------------
MaxCalls == 2
MaxParas == 1
MaxPages == 3

\* ------------------------------------------------------------------------
\* Exact arithmetic standing for the program's float arithmetic
\* ------------------------------------------------------------------------
Abs(x) == IF x < 0 THEN -x ELSE x

\* Operator arguments are passed unevaluated; the recursive operators bind
\* their operands (x \in {e}) so that each level works on evaluated values.
RECURSIVE GCD(_, _)
GCD(a, b) ==
    IF b = 0 THEN a
    ELSE CHOOSE g \in {GCD(x, y) : x \in {b}, y \in {a % b}} : TRUE

LCM(a, b) == (a \div GCD(a, b)) * b

Rat(n, d) == LET g == GCD(Abs(n), d) IN [n |-> n \div g, d |-> d \div g]

Zero == Rat(0, 1)
One == Rat(1, 1)

RAdd(a, b) ==
    LET l == LCM(a.d, b.d)
    IN Rat(a.n * (l \div a.d) + b.n * (l \div b.d), l)

RNeg(a) == [n |-> -a.n, d |-> a.d]

RSub(a, b) == RAdd(a, RNeg(b))

RAbs(a) == [n |-> Abs(a.n), d |-> a.d]

RMul(a, b) ==
    LET g1 == GCD(Abs(a.n), b.d)
        g2 == GCD(Abs(b.n), a.d)
    IN Rat((a.n \div g1) * (b.n \div g2), (a.d \div g2) * (b.d \div g1))

\* a / b for b # 0
RDiv(a, b) ==
    RMul(a, IF b.n < 0 THEN [n |-> -b.d, d |-> -b.n] ELSE [n |-> b.d, d |-> b.n])

RLess(a, b) ==
    LET l == LCM(a.d, b.d)
    IN a.n * (l \div a.d) < b.n * (l \div b.d)

RLeq(a, b) == ~RLess(b, a)

RECURSIVE RSumTo(_, _)
RSumTo(s, k) ==
    IF k = 0 THEN Zero
    ELSE CHOOSE r \in {RAdd(x, y) : x \in {RSumTo(s, k - 1)}, y \in {s[k]}} : TRUE

\* sum(s)
RSum(s) == RSumTo(s, Len(s))

\* np.mean of a non-empty list
Mean(s) == RDiv(RSum(s), Rat(Len(s), 1))

\* np.std(s) ** 2: the population variance
Variance(s) ==
    LET m == Mean(s)
    IN Mean([i \in 1..Len(s) |-> RMul(RSub(s[i], m), RSub(s[i], m))])

\* a clip that forgets the lower bound (sensitivity variant of Clip)
ClipNoLower(x) == IF RLess(One, x) THEN One ELSE x
\* np.clip(x, 0, 1)
Clip(x) == IF RLess(x, Zero) THEN Zero ELSE IF RLess(One, x) THEN One ELSE x

\* [f[dim] for f in features]
Column(features, dim) == [i \in 1..Len(features) |-> features[i][dim]]

Dimensions == <<"confidence", "symbol_density", "line_breaks">>

\* ------------------------------------------------------------------------
\* compare_handwriting_features
\* ------------------------------------------------------------------------
RECURSIVE Flatten(_)
Flatten(features) ==
    IF features = <<>> THEN <<>> ELSE features[1] \o Flatten(Tail(features))

\* 1 - abs(np.mean(...) - np.mean(...)), not clamped
Sim(flat1, flat2, dim) ==
    RSub(One, RAbs(RSub(Mean(Column(flat1, dim)), Mean(Column(flat2, dim)))))

ScoreKeys ==
    {"confidence_similarity", "symbol_density_similarity",
     "line_break_similarity", "average_confidence_similarity"}

EmptyScores == [k \in {} |-> Zero]

Degenerate == [similarity |-> Zero, feature_scores |-> EmptyScores]

weights ==
    [confidence |-> Rat(3, 10), symbol_density |-> Rat(3, 10),
     line_breaks |-> Rat(2, 10), avg_confidence |-> Rat(2, 10)]

compare_handwriting_features(features1, features2) ==
    IF features1 = <<>> \/ features2 = <<>>
    THEN Degenerate
    ELSE IF features1[1] = <<>> \/ features2[1] = <<>>
    THEN Degenerate
    ELSE
    LET flat_features1 == Flatten(features1)
        flat_features2 == Flatten(features2)
        conf_sim == Sim(flat_features1, flat_features2, "confidence")
        symbol_density_sim == Sim(flat_features1, flat_features2, "symbol_density")
        line_break_sim == Sim(flat_features1, flat_features2, "line_breaks")
        avg_conf_sim ==
            Sim(flat_features1, flat_features2, "average_symbol_confidence")
        feature_scores ==
            [k \in ScoreKeys |->
                CASE k = "confidence_similarity" -> Clip(conf_sim)
                  [] k = "symbol_density_similarity" -> Clip(symbol_density_sim)
                  [] k = "line_break_similarity" -> Clip(line_break_sim)
                  [] k = "average_confidence_similarity" -> Clip(avg_conf_sim)]
        similarity ==
            RAdd(RAdd(RMul(weights.confidence, conf_sim),
                      RMul(weights.symbol_density, symbol_density_sim)),
                 RAdd(RMul(weights.line_breaks, line_break_sim),
                      RMul(weights.avg_confidence, avg_conf_sim)))
    IN IF flat_features1 = <<>> \/ flat_features2 = <<>>
       THEN Degenerate
       ELSE [similarity |-> Clip(similarity), feature_scores |-> feature_scores]

\* ------------------------------------------------------------------------
\* detect_page_anomalies
\* ------------------------------------------------------------------------
AnomalyThreshold == 2

\* sensitivity variants of Exceeds: >= in place of >, and the variance in
\* place of the standard deviation
ExceedsOrEqual(value, mean, variance) ==
    RLeq(RMul(Rat(AnomalyThreshold * AnomalyThreshold, 1), variance),
         RMul(RSub(value, mean), RSub(value, mean)))
ExceedsVariance(value, mean, variance) ==
    RLess(RMul(Rat(AnomalyThreshold, 1), variance), RAbs(RSub(value, mean)))
\* abs(value - mean) > threshold * std, compared on the squares
Exceeds(value, mean, variance) ==
    RLess(RMul(Rat(AnomalyThreshold * AnomalyThreshold, 1), variance),
          RMul(RSub(value, mean), RSub(value, mean)))

\* abs(value - mean) / std, carried as its square.  With std = 0 the numpy
\* division yields inf or nan (and a warning): finite is FALSE.
Deviation(value, mean, variance) ==
    IF variance = Zero
    THEN [finite |-> FALSE, squared |-> Zero]
    ELSE [finite |-> TRUE,
          squared |-> RDiv(RMul(RSub(value, mean), RSub(value, mean)), variance)]

\* the dimensions on which paragraph i is flagged
Flagged(features, i) ==
    {dim \in {Dimensions[k] : k \in 1..Len(Dimensions)} :
        Exceeds(features[i][dim], Mean(Column(features, dim)),
                Variance(Column(features, dim)))}

\* anomaly[dim] = {"value": ..., "mean": ..., "deviation": ...}
AnomalyEntry(features, i, dim) ==
    [value |-> features[i][dim],
     mean |-> Mean(Column(features, dim)),
     deviation |->
         Deviation(features[i][dim], Mean(Column(features, dim)),
                   Variance(Column(features, dim)))]

\* the per-dimension entries of one paragraph's anomaly dict
AnomalyOf(features, i) ==
    [dim \in Flagged(features, i) |-> AnomalyEntry(features, i, dim)]

RECURSIVE AnomaliesFrom(_, _, _)
AnomaliesFrom(features, page_num, i) ==
    IF i > Len(features) THEN <<>>
    ELSE LET anomaly == AnomalyOf(features, i)
         IN (IF DOMAIN anomaly # {}
             THEN <<[paragraph_index |-> i - 1, page_number |-> page_num + 1,
                     dims |-> anomaly]>>
             ELSE <<>>)
            \o AnomaliesFrom(features, page_num, i + 1)

detect_page_anomalies(features, page_num) == AnomaliesFrom(features, page_num, 1)

\* ------------------------------------------------------------------------
\* analyze_page_variations
\* ------------------------------------------------------------------------
VariationThreshold == Rat(15, 100)

\* change_type.replace('_', ' ').title()
Title(change_type) ==
    CASE change_type = "confidence" -> "Confidence"
      [] change_type = "symbol_density" -> "Symbol Density"
      [] change_type = "line_breaks" -> "Line Breaks"

\* the digits of f"{x:.1f}" for x >= 0, in tenths: round half to even
RoundTenths(x) ==
    LET t == RMul(x, Rat(10, 1))
        q == t.n \div t.d
        r == t.n % t.d
    IN IF 2 * r < t.d THEN q
       ELSE IF 2 * r > t.d THEN q + 1
       ELSE IF q % 2 = 0 THEN q ELSE q + 1

\* f"{title} changed by {(value * 100):.1f}%"
Description(change_type, value) ==
    [title |-> Title(change_type),
     changed_by_tenths |-> RoundTenths(RMul(value, Rat(100, 1)))]

\* sensitivity variant of OverThreshold: >= in place of >
OverThresholdOrEqual(value) == RLeq(VariationThreshold, value)
\* value > threshold
OverThreshold(value) == RLess(VariationThreshold, value)

RECURSIVE ChangesFrom(_, _, _)
ChangesFrom(prev_page, curr_page, k) ==
    IF k > Len(Dimensions) THEN <<>>
    ELSE LET change_type == Dimensions[k]
             value == RAbs(RSub(curr_page[change_type], prev_page[change_type]))
         IN (IF OverThreshold(value)
             THEN <<[type |-> change_type, difference |-> value,
                     description |-> Description(change_type, value)]>>
             ELSE <<>>)
            \o ChangesFrom(prev_page, curr_page, k + 1)

RECURSIVE VariationsFrom(_, _)
VariationsFrom(page_characteristics, i) ==
    IF i > Len(page_characteristics) THEN <<>>
    ELSE LET prev_page == page_characteristics[i - 1]
             curr_page == page_characteristics[i]
             variation ==
                 [from_page |-> prev_page.page_number,
                  to_page |-> curr_page.page_number,
                  changes |-> ChangesFrom(prev_page, curr_page, 1)]
         IN (IF variation.changes # <<>> THEN <<variation>> ELSE <<>>)
            \o VariationsFrom(page_characteristics, i + 1)

analyze_page_variations(page_characteristics) ==
    VariationsFrom(page_characteristics, 2)

\* ------------------------------------------------------------------------
\* detect_internal_anomalies
\* ------------------------------------------------------------------------
\* the page_characteristics dict of one non-empty page (page_num is 0-based)
PageCharacteristics(page_features, page_num) ==
    [page_number |-> page_num + 1,
     confidence |-> Mean(Column(page_features, "confidence")),
     symbol_density |-> Mean(Column(page_features, "symbol_density")),
     line_breaks |-> Mean(Column(page_features, "line_breaks"))]

\* the loop over enumerate(features): empty pages are skipped
RECURSIVE PageLoop(_, _)
PageLoop(features, k) ==
    IF k > Len(features) THEN [anomalies |-> <<>>, page_variations |-> <<>>]
    ELSE LET rest == PageLoop(features, k + 1)
         IN IF features[k] = <<>> THEN rest
            ELSE [anomalies |->
                      detect_page_anomalies(features[k], k - 1) \o rest.anomalies,
                  page_variations |->
                      <<PageCharacteristics(features[k], k - 1)>>
                          \o rest.page_variations]

\* every element of features is a list here (process_image returns lists), so
\* the isinstance test of line 218 never fails
detect_internal_anomalies(features) ==
    IF features = <<>>
    THEN [anomalies |-> <<>>, variations |-> <<>>]
    ELSE LET loop == PageLoop(features, 1)
         IN IF Len(loop.page_variations) > 1
            THEN [anomalies |-> loop.anomalies,
                  variations |-> analyze_page_variations(loop.page_variations)]
            ELSE [anomalies |-> loop.anomalies, variations |-> <<>>]

\* ------------------------------------------------------------------------
\* process_image
\* ------------------------------------------------------------------------
\* A recognized symbol: alnum is symbol["text"].isalnum(), break_type is the
\* truth of symbol["property"]["detectedBreak"]["type"].
Symbol(alnum, break_type, confidence) ==
    [alnum |-> alnum, break_type |-> break_type, confidence |-> confidence]

\* for word in words for symbol in word.get("symbols", [])
SymbolsOf(words) == Flatten(words)

\* sum(1 for ... if not symbol.get("text", "").isalnum())
CountNotAlnum(symbols) ==
    Cardinality({i \in 1..Len(symbols) : ~symbols[i].alnum})

\* sum(1 for ... if symbol["property"]["detectedBreak"]["type"])
CountBreaks(symbols) ==
    Cardinality({i \in 1..Len(symbols) : symbols[i].break_type})

\* sum(1 for word in words for _ in word.get("symbols", []))
CountSymbols(symbols) == Len(symbols)

\* the int / int division of average_symbol_confidence raises
\* ZeroDivisionError when the paragraph's words hold no symbol at all
RaisesZeroDivision(paragraph) ==
    paragraph.words # <<>> /\ CountSymbols(SymbolsOf(paragraph.words)) = 0

\* the dict appended for a paragraph with words and at least one symbol
ParagraphFeature(paragraph) ==
    LET words == paragraph.words
        symbols == SymbolsOf(words)
    IN [confidence |-> paragraph.confidence,
        word_count |-> Len(words),
        symbol_density |-> Rat(CountNotAlnum(symbols), Len(words)),
        line_breaks |-> Rat(CountBreaks(symbols), 1),
        average_symbol_confidence |->
            RDiv(RSum([i \in 1..Len(symbols) |-> symbols[i].confidence]),
                 Rat(CountSymbols(symbols), 1))]

\* for page in pages for block in page["blocks"] for paragraph in block["paragraphs"]
ParagraphsOf(text_data) == Flatten(Flatten(text_data.pages))

RECURSIVE FeaturesOf(_)
FeaturesOf(paragraphs) ==
    IF paragraphs = <<>> THEN <<>>
    ELSE (IF paragraphs[1].words # <<>>
          THEN <<ParagraphFeature(paragraphs[1])>>
          ELSE <<>>)
         \o FeaturesOf(Tail(paragraphs))

Returned(value) == [raised |-> FALSE, value |-> value]
Raised == [raised |-> TRUE, value |-> <<>>]

\* the body of the try block: what it returns, or that it raises
TryBody(response) ==
    IF response.post_raises THEN Raised
    ELSE IF response.status_code # 200 THEN Returned(<<>>)
    ELSE IF ~response.json_ok THEN Raised
    ELSE IF ~response.has_annotation THEN Returned(<<>>)
    ELSE IF \E k \in 1..Len(ParagraphsOf(response.text_data)) :
                RaisesZeroDivision(ParagraphsOf(response.text_data)[k])
    THEN Raised
    ELSE Returned(FeaturesOf(ParagraphsOf(response.text_data)))

\* sensitivity variant of process_image: no except clause
process_image_no_except(response) == TryBody(response)
\* try: ... except Exception: return []
process_image(response) ==
    IF TryBody(response).raised THEN Returned(<<>>) ELSE TryBody(response)

\* ------------------------------------------------------------------------
\* The recognition service and the documents of the model
\* ------------------------------------------------------------------------
NoText == [pages |-> <<>>]

\* requests.post raises (timeout, connection error)
Timeout ==
    [post_raises |-> TRUE, status_code |-> 0, json_ok |-> FALSE,
     has_annotation |-> FALSE, text_data |-> NoText]

\* a non-200 answer
ServerError ==
    [post_raises |-> FALSE, status_code |-> 500, json_ok |-> TRUE,
     has_annotation |-> FALSE, text_data |-> NoText]

\* a 200 answer whose body response.json() cannot parse
Malformed ==
    [post_raises |-> FALSE, status_code |-> 200, json_ok |-> FALSE,
     has_annotation |-> FALSE, text_data |-> NoText]

\* a 200 answer without "fullTextAnnotation": nothing was recognized
NoAnnotation ==
    [post_raises |-> FALSE, status_code |-> 200, json_ok |-> TRUE,
     has_annotation |-> FALSE, text_data |-> NoText]

Recognized(text_data) ==
    [post_raises |-> FALSE, status_code |-> 200, json_ok |-> TRUE,
     has_annotation |-> TRUE, text_data |-> text_data]

Letter(confidence) == Symbol(TRUE, FALSE, confidence)
Mark(confidence) == Symbol(FALSE, FALSE, confidence)
LineEnd(confidence) == Symbol(TRUE, TRUE, confidence)

\* one paragraph of two words, and a paragraph without words (skipped)
TextPage ==
    [pages |-> <<
        << <<[confidence |-> Rat(9, 10),
              words |-> << <<Letter(Rat(9, 10)), Letter(Rat(9, 10))>>,
                           <<Letter(Rat(9, 10)), LineEnd(Rat(9, 10))>> >>],
             [confidence |-> Rat(1, 2), words |-> <<>>]>> >> >>]

\* one paragraph of one word: two marks and three line ends
DensePage ==
    [pages |-> <<
        << <<[confidence |-> Rat(3, 4),
              words |-> << <<Mark(Rat(4, 5)), Mark(Rat(4, 5)), LineEnd(Rat(4, 5)),
                             LineEnd(Rat(4, 5)), LineEnd(Rat(4, 5))>> >>]>> >> >>]

\* a paragraph whose only word has no symbols, after an ordinary paragraph
NoSymbolsPage ==
    [pages |-> <<
        << <<[confidence |-> Rat(9, 10),
              words |-> << <<Letter(Rat(9, 10)), LineEnd(Rat(9, 10))>> >>]>>,
           <<[confidence |-> Rat(4, 5), words |-> << <<>> >>]>> >> >>]

Images == {"blank", "text", "dense", "nosymbols"}

\* what the service answers for an image when the call goes through
Recognition(image) ==
    CASE image = "blank" -> NoAnnotation
      [] image = "text" -> Recognized(TextPage)
      [] image = "dense" -> Recognized(DensePage)
      [] image = "nosymbols" -> Recognized(NoSymbolsPage)

ExtractionFailures == {Timeout, ServerError, Malformed}

\* every answer requests.post can give for an image
ServiceAnswers(image) == {Recognition(image)} \cup ExtractionFailures

Paths == {"a.pdf", "a_copy.pdf", "b.pdf", "missing.pdf"}

\* convert_from_path raises for a file it cannot read
Readable(path) == path # "missing.pdf"

\* the raw bytes of a readable file; a_copy.pdf is byte-identical to a.pdf
FileBytes(path) == IF path = "b.pdf" THEN "B" ELSE "A"

\* convert_from_path: the page images of a readable file, in page order
convert_from_path(path) ==
    IF FileBytes(path) = "A" THEN <<"blank", "text">> ELSE <<"dense", "nosymbols">>

\* hashlib.md5 of the file's bytes, taken to be collision-free: the digest
\* stands for the bytes
get_cache_key(path) == FileBytes(path)

\* md5 of the concatenated digests: order-sensitive and collision-free
CacheKey(pdf_path1, pdf_path2) == <<get_cache_key(pdf_path1), get_cache_key(pdf_path2)>>

\* sensitivity variant of load_from_cache: the file is never found
load_from_cache_missing(files, cache_key) == [found |-> FALSE, data |-> <<>>]
\* load_from_cache: the stored data, or None when no file is there
load_from_cache(files, cache_key) ==
    IF cache_key \in DOMAIN files
    THEN [found |-> TRUE, data |-> files[cache_key]]
    ELSE [found |-> FALSE, data |-> <<>>]

\* save_to_cache: json.dump writes the result tuple as a list
save_to_cache(files, cache_key, data) ==
    [k \in DOMAIN files \cup {cache_key} |->
        IF k = cache_key THEN data ELSE files[k]]

\* the truth value of `cached`: None and an empty list are false
Truthy(loaded) == loaded.found /\ loaded.data # <<>>

max_workers == 4
\* ------------------------------------------------------------------------
\* State
\* ------------------------------------------------------------------------
VARIABLES
    pc,           \* where compute_handwriting_similarity stands
    calls,        \* calls of compute_handwriting_similarity made so far
    cache,        \* CACHE_DIR: cache key -> stored result
    paths,        \* <<pdf_path1, pdf_path2>> of the current call
    doc,          \* which document's pages are being extracted: 1 or 2
    futures,      \* the futures list of extract_handwriting_features
    yielded,      \* the futures as_completed has yielded, in that order
    features1,    \* features1 of compute_handwriting_similarity
    features2,    \* features2 of compute_handwriting_similarity
    response,     \* what the call returned
    prior,        \* history: the cache entry of the call's key when it began
    invocations,  \* history: process_image invocations made by the call
    analysed,     \* history: the call ran anomaly detection and scoring
    fpc,          \* direct application: which functions have been applied
    fin1,         \* direct application: features1 / features
    fin2,         \* direct application: features2
    compared,     \* direct application: compare_handwriting_features' result
    detected      \* direct application: detect_internal_anomalies' result

pipeVars ==
    <<pc, calls, cache, paths, doc, futures, yielded, features1, features2,
      response, prior, invocations, analysed>>

fnVars == <<fpc, fin1, fin2, compared, detected>>

vars == <<pipeVars, fnVars>>

\* ------------------------------------------------------------------------
\* extract_handwriting_features
\* ------------------------------------------------------------------------
\* executor.submit for every image, in page order
Submit(images) ==
    [i \in 1..Len(images) |->
        [image |-> images[i], state |-> "pending", failed |-> FALSE,
         result |-> Returned(<<>>)]]

Running == {i \in 1..Len(futures) : futures[i].state = "running"}

AllYielded == Len(yielded) = Len(futures)

\* [future.result() for future in as_completed(futures)]
Collected == [k \in 1..Len(yielded) |-> futures[yielded[k]].result.value]

\* a free worker of the pool takes the oldest pending task
StartTask(i) ==
    /\ pc = "extract"
    /\ futures[i].state = "pending"
    /\ \A j \in 1..(i - 1) : futures[j].state # "pending"
    /\ Cardinality(Running) < max_workers
    /\ futures' = [futures EXCEPT ![i].state = "running"]
    /\ invocations' = invocations + 1
    /\ UNCHANGED <<pc, calls, cache, paths, doc, yielded, features1, features2,
                   response, prior, analysed, fnVars>>

\* the worker's process_image call ends, on whatever the service answered
FinishTask(i) ==
    /\ pc = "extract"
    /\ futures[i].state = "running"
    /\ \E answer \in ServiceAnswers(futures[i].image) :
          futures' = [futures EXCEPT
                         ![i].state = "finished",
                         ![i].failed = (answer \in ExtractionFailures),
                         ![i].result = process_image(answer)]
    /\ UNCHANGED <<pc, calls, cache, paths, doc, yielded, features1, features2,
                   response, prior, invocations, analysed, fnVars>>

\* as_completed yields a finished future; future.result() returns its value
\* or re-raises, and compute_handwriting_similarity wraps what is raised
YieldResult(i) ==
    /\ pc = "extract"
    /\ futures[i].state = "finished"
    /\ \A k \in 1..Len(yielded) : yielded[k] # i
    /\ IF futures[i].result.raised
       THEN /\ pc' = "raised"
            /\ UNCHANGED yielded
       ELSE /\ yielded' = Append(yielded, i)
            /\ UNCHANGED pc
    /\ UNCHANGED <<calls, cache, paths, doc, futures, features1, features2,
                   response, prior, invocations, analysed, fnVars>>

\* ------------------------------------------------------------------------
\* compute_handwriting_similarity
\* ------------------------------------------------------------------------
\* the call up to the first extraction: rasterize, fingerprint, look up
Call(pdf_path1, pdf_path2) ==
    /\ pc \in {"idle", "returned", "raised"}
    /\ calls < MaxCalls
    /\ calls' = calls + 1
    /\ paths' = <<pdf_path1, pdf_path2>>
    /\ invocations' = 0
    /\ analysed' = FALSE
    /\ features1' = <<>>
    /\ features2' = <<>>
    /\ yielded' = <<>>
    /\ doc' = 1
    /\ UNCHANGED <<cache, fnVars>>
    /\ IF ~Readable(pdf_path1) \/ ~Readable(pdf_path2)
       THEN /\ pc' = "raised"
            /\ response' = <<>>
            /\ prior' = <<>>
            /\ futures' = <<>>
       ELSE LET cache_key == CacheKey(pdf_path1, pdf_path2)
                cached == load_from_cache(cache, cache_key)
            IN /\ prior' = IF cache_key \in DOMAIN cache
                           THEN <<cache[cache_key]>> ELSE <<>>
               /\ IF Truthy(cached)
                  THEN /\ pc' = "returned"
                       /\ response' = cached.data
                       /\ futures' = <<>>
                  ELSE /\ pc' = "extract"
                       /\ response' = <<>>
                       /\ futures' = Submit(convert_from_path(pdf_path1))

\* extract_handwriting_features(images1) returns; images2 is submitted
NextDocument ==
    /\ pc = "extract"
    /\ doc = 1
    /\ AllYielded
    /\ features1' = Collected
    /\ doc' = 2
    /\ futures' = Submit(convert_from_path(paths[2]))
    /\ yielded' = <<>>
    /\ UNCHANGED <<pc, calls, cache, paths, features2, response, prior,
                   invocations, analysed, fnVars>>

\* the tuple built after both extractions
Response(f1, f2) ==
    LET a1 == detect_internal_anomalies(f1)
        a2 == detect_internal_anomalies(f2)
        scored == compare_handwriting_features(f1, f2)
    IN <<Clip(scored.similarity), scored.feature_scores,
         a1.anomalies, a2.anomalies, a1.variations, a2.variations>>

\* extract_handwriting_features(images2) returns; analysis, scoring, save
Complete ==
    /\ pc = "extract"
    /\ doc = 2
    /\ AllYielded
    /\ features2' = Collected
    /\ response' = Response(features1, Collected)
    /\ cache' = save_to_cache(cache, CacheKey(paths[1], paths[2]),
                              Response(features1, Collected))
    /\ analysed' = TRUE
    /\ pc' = "returned"
    /\ UNCHANGED <<calls, paths, doc, futures, yielded, features1, prior,
                   invocations, fnVars>>

PipeInit ==
    /\ pc = "idle"
    /\ calls = 0
    /\ cache = [k \in {} |-> <<>>]
    /\ paths = <<"a.pdf", "a.pdf">>
    /\ doc = 1
    /\ futures = <<>>
    /\ yielded = <<>>
    /\ features1 = <<>>
    /\ features2 = <<>>
    /\ response = <<>>
    /\ prior = <<>>
    /\ invocations = 0
    /\ analysed = FALSE

FnIdle ==
    /\ fpc = "off"
    /\ fin1 = <<>>
    /\ fin2 = <<>>
    /\ compared = <<>>
    /\ detected = <<>>

Init == PipeInit /\ FnIdle

Next ==
    \/ \E pdf_path1 \in Paths, pdf_path2 \in Paths : Call(pdf_path1, pdf_path2)
    \/ \E i \in 1..Len(futures) : StartTask(i)
    \/ \E i \in 1..Len(futures) : FinishTask(i)
    \/ \E i \in 1..Len(futures) : YieldResult(i)
    \/ NextDocument
    \/ Complete

Spec == Init /\ [][Next]_vars
\* ------------------------------------------------------------------------
\* Direct application of the scorer and the detector to bounded inputs
\* ------------------------------------------------------------------------
WithConfidence(feature, confidence) ==
    [feature EXCEPT !.confidence = confidence]

PlainFeature ==
    [confidence |-> Rat(9, 10), word_count |-> 2, symbol_density |-> Zero,
     line_breaks |-> Rat(1, 1), average_symbol_confidence |-> Rat(9, 10)]

DenseFeature ==
    [confidence |-> Rat(3, 4), word_count |-> 1, symbol_density |-> Rat(2, 1),
     line_breaks |-> Rat(3, 1), average_symbol_confidence |-> Rat(4, 5)]

FeaturePalette == {PlainFeature, DenseFeature}

\* three paragraphs of confidences 0.9, 0.92 and 0.05
ExamplePage ==
    <<PlainFeature, WithConfidence(PlainFeature, Rat(92, 100)),
      WithConfidence(PlainFeature, Rat(5, 100))>>

\* five paragraphs alike and a sixth of confidence 0.1
OutlierPage ==
    <<DenseFeature, DenseFeature, DenseFeature, DenseFeature, DenseFeature,
      WithConfidence(DenseFeature, Rat(1, 10))>>

SeqsUpTo(S, n) == UNION {[1..k -> S] : k \in 0..n}

FnPages == SeqsUpTo(FeaturePalette, MaxParas) \cup {ExamplePage, OutlierPage}

FnDocs == SeqsUpTo(FnPages, MaxPages)

SecondDocs ==
    {<<>>, << <<>> >>, << <<PlainFeature>> >>, << <<DenseFeature>> >>,
     << <<>>, <<PlainFeature>> >>, << <<PlainFeature, DenseFeature>>, <<>> >>}

\* compare_handwriting_featureson a chosen second document
ApplyCompare(second) ==
    /\ fpc = "ready"
    /\ fin2' = second
    /\ compared' = <<compare_handwriting_features(fin1, second)>>
    /\ fpc' = "compared"
    /\ UNCHANGED <<fin1, detected, pipeVars>>

\* detect_internal_anomalies(features)
ApplyDetect ==
    /\ fpc = "ready"
    /\ detected' = <<detect_internal_anomalies(fin1)>>
    /\ fpc' = "detected"
    /\ UNCHANGED <<fin1, fin2, compared, pipeVars>>

FnInit ==
    /\ PipeInit
    /\ fpc = "ready"
    /\ fin1 \in FnDocs
    /\ fin2 = <<>>
    /\ compared = <<>>
    /\ detected = <<>>

FnNext ==
    \/ \E second \in SecondDocs : ApplyCompare(second)
    \/ ApplyDetect

SpecFn == FnInit /\ [][FnNext]_vars
\* ------------------------------------------------------------------------
\* Properties
\* ------------------------------------------------------------------------
InUnit(x) == RLeq(Zero, x) /\ RLeq(x, One)

\* C1: when extract_handwriting_features has collected every page, the list
\* it returns holds at position i the features extracted from page image i.
C1_FeaturesInPageOrder ==
    (pc = "extract" /\ AllYielded) =>
        Collected = [i \in 1..Len(futures) |-> futures[i].result.value]

\* C2: a call whose key was saved by an earlier call returns that saved
\* result without invoking process_image for any page and without running
\* anomaly detection or scoring.
C2_SecondCallServedFromCache ==
    prior # <<>> =>
        /\ pc # "extract"
        /\ invocations = 0
        /\ ~analysed
        /\ pc = "returned" => response = prior[1]

C2_Witness ==
    /\ pc = "returned"
    /\ calls = 2
    /\ prior # <<>>
    /\ response = prior[1]
    /\ paths = <<"a_copy.pdf", "b.pdf">>

\* C3: a page whose extraction fails yields an empty list and raises nothing;
\* the collected list has one entry per page, every page that did not fail
\* contributes exactly what its recognition gives on its own, and the call is
\* aborted only by an unreadable document.
C3_PageFailureIsolated ==
    /\ \A i \in 1..Len(futures) :
          (futures[i].state = "finished" /\ futures[i].failed) =>
              futures[i].result = Returned(<<>>)
    /\ (pc = "extract" /\ AllYielded) =>
          /\ Len(Collected) = Len(convert_from_path(paths[doc]))
          /\ \A i \in 1..Len(futures) :
                /\ Cardinality({k \in 1..Len(yielded) : yielded[k] = i}) = 1
                /\ ~futures[i].failed =>
                      \E k \in 1..Len(yielded) :
                          /\ yielded[k] = i
                          /\ Collected[k] =
                                 process_image(Recognition(futures[i].image)).value
    /\ pc = "raised" => (~Readable(paths[1]) \/ ~Readable(paths[2]))

C3_Witness ==
    /\ pc = "extract"
    /\ AllYielded
    /\ \E i, j \in 1..Len(futures) :
          /\ futures[i].failed
          /\ ~futures[j].failed
          /\ futures[j].result.value # <<>>
          /\ \E k \in 1..Len(yielded) :
                yielded[k] = j /\ Collected[k] = futures[j].result.value

\* C4: for documents that are not degenerate, the composite score equals the
\* clamp of 0.3*confidence_similarity + 0.3*symbol_density_similarity
\* + 0.2*line_break_similarity + 0.2*average_confidence_similarity, taken
\* over the reported (clamped) sub-scores.
C4_CompositeIsWeightedSumOfSubscores ==
    (fpc = "compared" /\ DOMAIN compared[1].feature_scores # {}) =>
        LET scores == compared[1].feature_scores
        IN compared[1].similarity =
               Clip(RAdd(RAdd(RMul(Rat(3, 10), scores["confidence_similarity"]),
                              RMul(Rat(3, 10), scores["symbol_density_similarity"])),
                         RAdd(RMul(Rat(2, 10), scores["line_break_similarity"]),
                              RMul(Rat(2, 10),
                                   scores["average_confidence_similarity"]))))

\* C5: the composite score and every sub-score that
\* compute_handwriting_similarity returns lie in [0, 1], the degenerate
\* result and documents whose means differ by more than 1 included.
C5_ScoresWithinUnitInterval ==
    pc = "returned" =>
        /\ InUnit(response[1])
        /\ \A k \in DOMAIN response[2] : InUnit(response[2][k])

C5_Witness ==
    /\ pc = "returned"
    /\ analysed
    /\ DOMAIN response[2] = ScoreKeys
    /\ RLess(One, RAbs(RSub(Mean(Column(Flatten(features1), "line_breaks")),
                            Mean(Column(Flatten(features2), "line_breaks")))))
    /\ response[2]["line_break_similarity"] = Zero

\* the anomaly records of page k (1-based)
RecordsOfPage(k) ==
    {j \in 1..Len(detected[1].anomalies) : detected[1].anomalies[j].page_number = k}

HasExampleConfidences(page) ==
    /\ Len(page) = 3
    /\ page[1].confidence = Rat(90, 100)
    /\ page[2].confidence = Rat(92, 100)
    /\ page[3].confidence = Rat(5, 100)

\* C6 as stated: on a page of confidences 0.9, 0.92 and 0.05 the 0.05
\* paragraph gets an AnomalyRecord with dimension confidence and a deviation
\* greater than 2.0.
C6_ExampleParagraphFlagged ==
    fpc = "detected" =>
        \A k \in 1..Len(fin1) :
            HasExampleConfidences(fin1[k]) =>
                \E j \in RecordsOfPage(k) :
                    LET record == detected[1].anomalies[j]
                    IN /\ record.paragraph_index = 2
                       /\ "confidence" \in DOMAIN record.dims
                       /\ RLess(Rat(4, 1), record.dims["confidence"].deviation.squared)

\* C6 amended: on such a page the 0.05 paragraph is not flagged: its
\* deviation is at most 2.0 and no AnomalyRecord of the page contains the
\* dimension confidence.
C6_ExampleParagraphNotFlagged ==
    fpc = "detected" =>
        \A k \in 1..Len(fin1) :
            HasExampleConfidences(fin1[k]) =>
                /\ \A j \in RecordsOfPage(k) :
                      "confidence" \notin DOMAIN detected[1].anomalies[j].dims
                /\ LET column == Column(fin1[k], "confidence")
                   IN RLeq(RMul(RSub(column[3], Mean(column)),
                                RSub(column[3], Mean(column))),
                           RMul(Rat(4, 1), Variance(column)))

C6_Witness ==
    /\ fpc = "detected"
    /\ \E k \in 1..Len(fin1) :
          HasExampleConfidences(fin1[k]) /\ RecordsOfPage(k) = {}

\* C7: for a non-empty page and a dimension whose population standard
\* deviation over the page is 0, no AnomalyRecord of that page contains the
\* dimension, and no deviation is the outcome of a division by 0.
C7_ZeroDeviationNeverCited ==
    fpc = "detected" =>
        /\ \A k \in 1..Len(fin1) : \A d \in 1..Len(Dimensions) :
              (fin1[k] # <<>> /\ Variance(Column(fin1[k], Dimensions[d])) = Zero) =>
                  \A j \in RecordsOfPage(k) :
                      Dimensions[d] \notin DOMAIN detected[1].anomalies[j].dims
        /\ \A j \in 1..Len(detected[1].anomalies) :
              \A dim \in DOMAIN detected[1].anomalies[j].dims :
                  detected[1].anomalies[j].dims[dim].deviation.finite

C7_Witness ==
    /\ fpc = "detected"
    /\ \E k \in 1..Len(fin1) :
          /\ fin1[k] # <<>>
          /\ Variance(Column(fin1[k], "line_breaks")) = Zero
          /\ \E j \in RecordsOfPage(k) :
                DOMAIN detected[1].anomalies[j].dims = {"confidence"}
    /\ \E k \in 1..Len(fin1) : Len(fin1[k]) = 1

NonEmptyPages(features) == {k \in 1..Len(features) : features[k] # <<>>}

\* pairs of non-empty pages with no non-empty page between them
ConsecutivePairs(features) ==
    {pair \in NonEmptyPages(features) \X NonEmptyPages(features) :
        /\ pair[1] < pair[2]
        /\ \A c \in NonEmptyPages(features) : ~(pair[1] < c /\ c < pair[2])}

\* the dimensions whose page means differ by more than 0.15
Exceeding(features, pair) ==
    {Dimensions[d] : d \in
        {d \in 1..Len(Dimensions) :
            RLess(Rat(15, 100),
                  RAbs(RSub(Mean(Column(features[pair[2]], Dimensions[d])),
                            Mean(Column(features[pair[1]], Dimensions[d])))))}}

\* C8: a VariationRecord is emitted for a pair of consecutive non-empty pages
\* exactly when some dimension's means differ by more than 0.15, its changes
\* are exactly those dimensions, and fewer than two non-empty pages give no
\* variation at all.
C8_VariationsExactlyOverThreshold ==
    fpc = "detected" =>
        LET variations == detected[1].variations
            expected ==
                {<<pair[1], pair[2], Exceeding(fin1, pair)>> :
                    pair \in {q \in ConsecutivePairs(fin1) : Exceeding(fin1, q) # {}}}
            emitted ==
                {<<variations[j].from_page, variations[j].to_page,
                   {variations[j].changes[c].type :
                       c \in 1..Len(variations[j].changes)}>> :
                    j \in 1..Len(variations)}
        IN /\ emitted = expected
           /\ Len(variations) = Cardinality(expected)
           /\ \A j \in 1..Len(variations) :
                 Len(variations[j].changes) =
                     Cardinality({variations[j].changes[c].type :
                                     c \in 1..Len(variations[j].changes)})
           /\ Cardinality(NonEmptyPages(fin1)) < 2 => variations = <<>>

C8_Witness ==
    /\ fpc = "detected"
    /\ Len(fin1) = 3
    /\ fin1[2] = <<>>
    /\ Len(detected[1].variations) = 1
    /\ detected[1].variations[1].from_page = 1
    /\ detected[1].variations[1].to_page = 3
    /\ Len(detected[1].variations[1].changes) = 2

\* C9: a recognized paragraph with words but no symbols is still turned into
\* a ParagraphFeature (average_symbol_confidence zero) and its page keeps one
\* feature per paragraph that has words.
C9_ZeroSymbolParagraphKept ==
    \A i \in 1..Len(futures) :
        (futures[i].state = "finished" /\ ~futures[i].failed
            /\ Recognition(futures[i].image).has_annotation) =>
            LET paragraphs == ParagraphsOf(Recognition(futures[i].image).text_data)
            IN Len(futures[i].result.value) =
                   Cardinality({k \in 1..Len(paragraphs) : paragraphs[k].words # <<>>})

Reordered(s) ==
    {[k \in 1..Len(s) |-> s[p[k]]] : p \in Permutations(1..Len(s))}

\* C10: on a cache miss the score and the sub-scores returned are those of
\* every other completion order of the same page results.
C10_ScoreIndependentOfCompletionOrder ==
    (pc = "returned" /\ analysed) =>
        \A o1 \in Reordered(features1), o2 \in Reordered(features2) :
            LET scored == compare_handwriting_features(o1, o2)
            IN /\ Clip(scored.similarity) = response[1]
               /\ scored.feature_scores = response[2]
====
